---------------------------- MODULE Spec2Model ----------------------------
(***************************************************************************)
(* Model of the sales-analytics server (src/server.js): four report        *)
(* handlers over a PostgreSQL store reached through a connection pool.     *)
(*                                                                         *)
(* Conventions                                                             *)
(*   - a date is a day number, day 0 being 2021-01-01 (a Friday);          *)
(*   - an SQL value is [null, m, s]: NULL, or the number m / 10^s (an      *)
(*     integer has s = 0);                                                 *)
(*   - a JavaScript number is [t, m, s] with t in {"num","null","NaN"},    *)
(*     again m / 10^s;                                                     *)
(*   - a query-string parameter is [k, v]: k = "absent", "int" (a decimal  *)
(*     integer literal v), "prefix" (digits of v followed by other text),  *)
(*     "text" (no leading digits), "date" (an ISO date, day number v).     *)
(***************************************************************************)
EXTENDS Integers, Sequences, FiniteSets, TLC

VARIABLES
    users,        \* table users: set of [id, name, role]
    groups,       \* table groups: set of [id, name]
    user_groups,  \* table user_groups: set of [user_id, group_id]
    sales,        \* table sales: sequence of [user_id, amount, date], index = id
    checkedOut,   \* number of pool clients currently checked out
    req           \* per request: position of its handler, parameters, responses

vars == <<users, groups, user_groups, sales, checkedOut, req>>

----------------------------------------------------------------------------
(* Bounds of the model *)

MaxUsers  == 2
MaxGroups == 2
MaxSales  == 2
MaxTrendSales == 3
MaxRows   == 3
MaxReq    == 2

(* Program constants *)

PoolMax      == 20      \* pool max
DefaultLimit == 10      \* limit = 10
DefaultStart == 0       \* startDate = '2021-01-01'

----------------------------------------------------------------------------
(* Values *)

SqlNull      == [null |-> TRUE,  m |-> 0, s |-> 0]
SqlNum(m, s) == [null |-> FALSE, m |-> m, s |-> s]
SqlInt(n)    == SqlNum(n, 0)

JsNull       == [t |-> "null", m |-> 0, s |-> 0]
JsNaN        == [t |-> "NaN",  m |-> 0, s |-> 0]
JsNum(m, s)  == [t |-> "num",  m |-> m, s |-> s]

Absent       == [k |-> "absent", v |-> 0]
PInt(n)      == [k |-> "int",    v |-> n]
PPrefix(n)   == [k |-> "prefix", v |-> n]
PText        == [k |-> "text",   v |-> 0]
PDate(d)     == [k |-> "date",   v |-> d]

Min(S) == CHOOSE x \in S : \A y \in S : x <= y
Abs(n) == IF n < 0 THEN 0 - n ELSE n

RECURSIVE SortAsc(_)
SortAsc(S) == IF S = {} THEN <<>>
              ELSE LET lo == Min(S) IN <<lo>> \o SortAsc(S \ {lo})

(* JavaScript conversions *)

\* parseFloat of a column the driver hands over as a string (numeric, bigint)
\* or as null: parseFloat(null) is NaN.
parseFloat(x) == IF x.null THEN JsNaN ELSE JsNum(x.m, x.s)

\* parseInt of a bigint column (a string of digits) or of null.
parseIntCol(x) == IF x.null THEN JsNaN ELSE JsNum(x.m, 0)

\* parseInt of a query-string parameter: leading digits, else NaN.
parseInt(p) == IF p.k \in {"int", "prefix"} THEN JsNum(p.v, 0) ELSE JsNaN

\* x || 0 on a number: NaN and 0 are falsy.
OrZero(x) == IF x.t = "NaN" \/ (x.t = "num" /\ x.m = 0) THEN JsNum(0, 0) ELSE x

\* JSON.stringify writes NaN as null.
ToJSON(x) == IF x.t = "NaN" THEN JsNull ELSE x

----------------------------------------------------------------------------
(* PostgreSQL arithmetic *)

\* n / d rounded half away from zero to k decimal places, as the integer
\* result * 10^k; d > 0.  The quotient is produced digit by digit, as
\* numeric division does.
RECURSIVE DivDigits(_, _, _, _)
DivDigits(q, r, d, k) ==
    IF k = 0 THEN (IF 2 * r >= d THEN q + 1 ELSE q)
    ELSE DivDigits(q * 10 + ((r * 10) \div d), (r * 10) % d, d, k - 1)

DivRound(n, d, k) ==
    LET a == Abs(n)
        u == DivDigits(a \div d, a % d, d, k)
    IN  IF n < 0 THEN 0 - u ELSE u

\* DATE_TRUNC(interval, date) on the civil calendar of 2021..2023 (no leap
\* year); day 0 is Friday 2021-01-01, weeks start on Monday.
MonthStart == <<0, 31, 59, 90, 120, 151, 181, 212, 243, 273, 304, 334>>
QuarterStart == <<0, 90, 181, 273>>

LastStart(starts, doy) ==
    LET i == CHOOSE j \in DOMAIN starts :
                 /\ starts[j] <= doy
                 /\ \A l \in DOMAIN starts : starts[l] <= doy => l <= j
    IN  starts[i]

DATE_TRUNC(interval, d) ==
    LET y   == d \div 365
        doy == d % 365
    IN  CASE interval = "day"     -> d
          [] interval = "week"    -> d - ((d + 4) % 7)
          [] interval = "month"   -> 365 * y + LastStart(MonthStart, doy)
          [] interval = "quarter" -> 365 * y + LastStart(QuarterStart, doy)
          [] interval = "year"    -> 365 * y

validIntervals == {"day", "week", "month", "quarter", "year"}

\* The coercion falling back to 'day'.
timeInterval_day(interval) == IF interval \in validIntervals THEN interval ELSE "day"

\* validIntervals.includes(interval) ? interval : 'month', the parameter
\* defaulting to 'month' when absent.
timeInterval(interval) == IF interval \in validIntervals THEN interval ELSE "month"


----------------------------------------------------------------------------
(* Query building blocks *)

RECURSIVE SumAmount(_)
SumAmount(I) == IF I = {} THEN 0
                ELSE LET i == Min(I) IN sales[i].amount + SumAmount(I \ {i})

\* SUM(s.amount) over the sale rows I, each repeated mult times by the joins;
\* NULL over no sale row.
SUM(I, mult) == IF I = {} THEN SqlNull ELSE SqlInt(SumAmount(I) * mult)

\* AVG(s.amount)::numeric(10,2)
AVG(I, mult) == IF I = {} THEN SqlNull
                ELSE SqlNum(DivRound(SumAmount(I) * mult, Cardinality(I) * mult, 2), 2)

\* A date parameter the store can read as a date.
IsDate(p) == p.k = "date"

\* The range with its upper end left out.
InRange_from(i, startDate, end) == sales[i].date >= startDate

\* s.date >= $1 AND s.date <= $2, and s.date BETWEEN $1 AND $2
InRange(i, startDate, end) == sales[i].date >= startDate /\ sales[i].date <= end

\* const { startDate = '2021-01-01' } = req.query
StartParam(q) == IF q.startDate.k = "absent" THEN PDate(DefaultStart) ELSE q.startDate

\* const end = endDate || new Date().toISOString().split('T')[0]
EndParam(q, today) == IF q.endDate.k = "absent" THEN PDate(today) ELSE q.endDate

\* The outcome of client.query: rows, or a rejection.
QueryRows(rows) == [ok |-> TRUE,  rows |-> rows]
QueryError      == [ok |-> FALSE, rows |-> <<>>]

----------------------------------------------------------------------------
(* 4. GET /api/sales-analytics/trends *)

\* The stats CTE: one row per period, ascending, with LAG(SUM(s.amount)).
TrendStats(iv, startDate, end) ==
    LET S       == {i \in DOMAIN sales : InRange(i, startDate, end)}
        periods == SortAsc({DATE_TRUNC(iv, sales[i].date) : i \in S})
        In(k)   == {i \in S : DATE_TRUNC(iv, sales[i].date) = periods[k]}
    IN  [k \in DOMAIN periods |->
            [period        |-> periods[k],
             total_revenue |-> SUM(In(k), 1),
             sale_count    |-> SqlInt(Cardinality(In(k))),
             prev_revenue  |-> IF k = 1 THEN SqlNull ELSE SUM(In(k - 1), 1)]]

\* The CASE of the main query raises "division by zero" on a row whose
\* prev_revenue is 0.
GrowthRaises(row) == ~row.prev_revenue.null /\ row.prev_revenue.m = 0

\* n / d cut, not rounded, at k decimal places.
RECURSIVE CutDigits(_, _, _, _)
CutDigits(q, r, d, k) ==
    IF k = 0 THEN q
    ELSE CutDigits(q * 10 + ((r * 10) \div d), (r * 10) % d, d, k - 1)

\* The growth with the quotient cut at two decimal places.
growth_percentage_cut(row) ==
    IF ~row.prev_revenue.null
    THEN LET n == row.total_revenue.m - row.prev_revenue.m
             u == CutDigits(Abs(n) \div row.prev_revenue.m,
                            Abs(n) % row.prev_revenue.m, row.prev_revenue.m, 4)
         IN  SqlNum(IF n < 0 THEN 0 - u ELSE u, 2)
    ELSE SqlNull

\* CASE WHEN prev_revenue IS NOT NULL
\*   THEN ((total_revenue - prev_revenue) / prev_revenue * 100)::numeric(10,2)
\*   ELSE NULL END
\* (the quotient has 16 significant digits before the cast; at the amounts
\* of this model the cast rounds it as it rounds the exact quotient).
growth_percentage(row) ==
    IF ~row.prev_revenue.null
    THEN SqlNum(DivRound(row.total_revenue.m - row.prev_revenue.m,
                         row.prev_revenue.m, 4), 2)
    ELSE SqlNull

TrendsQuery(q, today) ==
    LET startDate == StartParam(q)
        end       == EndParam(q, today)
        stats     == TrendStats(timeInterval(q.interval), startDate.v, end.v)
    IN  IF ~IsDate(startDate) \/ ~IsDate(end) THEN QueryError
        ELSE IF \E k \in DOMAIN stats : GrowthRaises(stats[k]) THEN QueryError
        ELSE QueryRows([k \in DOMAIN stats |->
                          [period            |-> stats[k].period,
                           total_revenue     |-> stats[k].total_revenue,
                           sale_count        |-> stats[k].sale_count,
                           growth_percentage |-> growth_percentage(stats[k])]])

\* result.rows.map(row => ({ period, totalRevenue, saleCount, growthPercentage }))
TrendsRow(row) ==
    [period           |-> row.period,
     totalRevenue     |-> ToJSON(parseFloat(row.total_revenue)),
     saleCount        |-> ToJSON(parseIntCol(row.sale_count)),
     growthPercentage |-> IF ~row.growth_percentage.null
                          THEN ToJSON(parseFloat(row.growth_percentage))
                          ELSE JsNull]

----------------------------------------------------------------------------
(* 1. GET /api/sales-analytics/time-series *)

\* if (userId) / if (groupId): a parameter that is present (and not empty)
Truthy(p) == p.k # "absent"

\* The store reads an integer parameter; parseInt's NaN is sent as the text
\* NaN, which is no integer.
BadIntParam(p) == Truthy(p) /\ parseInt(p).t = "NaN"

\* FROM sales s JOIN users u [JOIN user_groups ug] WHERE whereClauses
\* (user_groups holds a pair once, so the join repeats no sale).
TimeSeriesRowsIn(q, startDate, end) ==
    {i \in DOMAIN sales :
        /\ InRange(i, startDate, end)
        /\ \E u \in users : u.id = sales[i].user_id
        /\ Truthy(q.userId) => sales[i].user_id = parseInt(q.userId).m
        /\ Truthy(q.groupId) =>
              \E ug \in user_groups : /\ ug.user_id = sales[i].user_id
                                      /\ ug.group_id = parseInt(q.groupId).m}

TimeSeriesQuery(q, today) ==
    LET startDate == StartParam(q)
        end       == EndParam(q, today)
        iv        == timeInterval(q.interval)
        S         == TimeSeriesRowsIn(q, startDate.v, end.v)
        periods   == SortAsc({DATE_TRUNC(iv, sales[i].date) : i \in S})
        In(k)     == {i \in S : DATE_TRUNC(iv, sales[i].date) = periods[k]}
    IN  IF ~IsDate(startDate) \/ ~IsDate(end) THEN QueryError
        ELSE IF BadIntParam(q.userId) \/ BadIntParam(q.groupId) THEN QueryError
        ELSE QueryRows([k \in DOMAIN periods |->
                [period        |-> periods[k],
                 sale_count    |-> SqlInt(Cardinality(In(k))),
                 total_revenue |-> SUM(In(k), 1),
                 avg_revenue   |-> AVG(In(k), 1),
                 active_users  |-> SqlInt(Cardinality({sales[i].user_id : i \in In(k)}))]])

\* const { metric = 'all' } = req.query
MetricParam(q) == IF q.metric = "<absent>" THEN "all" ELSE q.metric

\* The keys of a responseData row for a metric.
TimeSeriesKeys(metric) ==
    {"period"}
    \cup (IF metric = "all" \/ metric = "totalRevenue" THEN {"totalRevenue"} ELSE {})
    \cup (IF metric = "all" \/ metric = "avgRevenue" THEN {"averageRevenue"} ELSE {})
    \cup (IF metric = "all" \/ metric = "saleCount" THEN {"saleCount"} ELSE {})
    \cup (IF metric = "all" THEN {"activeUsers"} ELSE {})

\* responseData = result.rows.map(row => ({ period: row.period, ... }))
\* (period is held as [t |-> "num", m |-> day, s |-> 0]).
TimeSeriesRow(row, metric) ==
    [key \in TimeSeriesKeys(metric) |->
        CASE key = "period"         -> JsNum(row.period, 0)
          [] key = "totalRevenue"   -> ToJSON(parseFloat(row.total_revenue))
          [] key = "averageRevenue" -> ToJSON(parseFloat(row.avg_revenue))
          [] key = "saleCount"      -> ToJSON(parseIntCol(row.sale_count))
          [] key = "activeUsers"    -> ToJSON(parseIntCol(row.active_users))]

----------------------------------------------------------------------------
(* Ordering and truncation *)

\* ORDER BY total_revenue DESC, whose nulls come first.
Before_nullsFirst(a, b) ==
    \/ a.total_revenue.null /\ ~b.total_revenue.null
    \/ /\ ~a.total_revenue.null /\ ~b.total_revenue.null
       /\ a.total_revenue.m > b.total_revenue.m

\* ORDER BY total_revenue DESC NULLS LAST: row a must come before row b.
Before(a, b) ==
    /\ ~a.total_revenue.null
    /\ (b.total_revenue.null \/ a.total_revenue.m > b.total_revenue.m)

\* The orders the store may return the rows R in: rows that tie come in any
\* order.
Ordered(R) ==
    {f \in [1..Cardinality(R) -> R] :
        /\ \A i, j \in DOMAIN f : i # j => f[i] # f[j]
        /\ \A i, j \in DOMAIN f : i < j => ~Before(f[j], f[i])}

\* A limit that keeps one row too many.
LIMIT_inclusive(f, n) == IF n + 1 < Len(f) THEN SubSeq(f, 1, n + 1) ELSE f

\* LIMIT n
LIMIT(f, n) == IF n < Len(f) THEN SubSeq(f, 1, n) ELSE f

RECURSIVE Repeat(_, _)
Repeat(x, n) == IF n = 0 THEN <<>> ELSE <<x>> \o Repeat(x, n - 1)

RECURSIVE Flatten(_)
Flatten(ss) == IF ss = <<>> THEN <<>> ELSE Head(ss) \o Flatten(Tail(ss))

----------------------------------------------------------------------------
(* 2. GET /api/sales-analytics/users *)

NullName == [null |-> TRUE, name |-> <<"Group", 0>>]

\* g.name of LEFT JOIN groups g ON ug.group_id = g.id
GroupNameOf(gid) ==
    IF \E g \in groups : g.id = gid
    THEN [null |-> FALSE, name |-> (CHOOSE g \in groups : g.id = gid).name]
    ELSE NullName

\* The aggregate row of user u.  FROM users u LEFT JOIN sales s LEFT JOIN
\* user_groups ug LEFT JOIN groups g yields, for u, one row per pair of a
\* sale of u in the range (or the null sale) and a membership of u (or the
\* null membership); json_agg is listed in membership-then-sale order, the
\* row order being the store's choice.
UsersSqlRow(u, startDate, end) ==
    LET S     == {i \in DOMAIN sales : sales[i].user_id = u.id /\ InRange(i, startDate, end)}
        M     == {ug.group_id : ug \in {x \in user_groups : x.user_id = u.id}}
        sRows == IF S = {} THEN 1 ELSE Cardinality(S)
        mRows == IF M = {} THEN 1 ELSE Cardinality(M)
        gids  == SortAsc(M)
    IN  [id            |-> u.id,
         name          |-> u.name,
         role          |-> u.role,
         sale_count    |-> SqlInt(Cardinality(S) * mRows),
         total_revenue |-> SUM(S, mRows),
         avg_revenue   |-> AVG(S, mRows),
         active_days   |-> SqlInt(Cardinality({DATE_TRUNC("day", sales[i].date) : i \in S})),
         groups        |-> IF M = {} THEN Repeat(NullName, sRows)
                           ELSE Flatten([k \in DOMAIN gids |->
                                           Repeat(GroupNameOf(gids[k]), sRows)])]

\* const { limit = 10 } = req.query; parseInt(limit)
LimitParam(q) == IF q.limit.k = "absent" THEN JsNum(DefaultLimit, 0) ELSE parseInt(q.limit)

\* The possible outcomes of the users query.
UsersQuery(q, today) ==
    LET startDate == StartParam(q)
        end       == EndParam(q, today)
        limit     == LimitParam(q)
    IN  IF ~IsDate(startDate) \/ ~IsDate(end) THEN {QueryError}
        ELSE IF limit.t = "NaN" \/ limit.m < 0 THEN {QueryError}
        ELSE {QueryRows(LIMIT(f, limit.m)) :
                 f \in Ordered({UsersSqlRow(u, startDate.v, end.v) : u \in users})}

IsNotNull(g) == ~g.null

\* The row mapping without its || 0.
UsersRow_unguarded(row) ==
    [userId         |-> row.id,
     name           |-> row.name,
     role           |-> row.role,
     saleCount      |-> ToJSON(parseIntCol(row.sale_count)),
     totalRevenue   |-> ToJSON(parseFloat(row.total_revenue)),
     averageRevenue |-> ToJSON(parseFloat(row.avg_revenue)),
     activeDays     |-> ToJSON(parseIntCol(row.active_days)),
     groups         |-> SelectSeq(row.groups, IsNotNull)]

\* result.rows.map(row => ({ userId, name, role, saleCount, ... }))
UsersRow(row) ==
    [userId         |-> row.id,
     name           |-> row.name,
     role           |-> row.role,
     saleCount      |-> ToJSON(parseIntCol(row.sale_count)),
     totalRevenue   |-> ToJSON(OrZero(parseFloat(row.total_revenue))),
     averageRevenue |-> ToJSON(OrZero(parseFloat(row.avg_revenue))),
     activeDays     |-> ToJSON(parseIntCol(row.active_days)),
     groups         |-> SelectSeq(row.groups, IsNotNull)]

----------------------------------------------------------------------------
(* 3. GET /api/sales-analytics/groups *)

\* Decimal places carried by the quotient of
\* SUM(s.amount)::numeric / COUNT(DISTINCT ug.user_id)
\* (the store carries 16 significant digits).
DivScale == 4

\* The aggregate row of group g: FROM groups g LEFT JOIN user_groups ug
\* LEFT JOIN sales s yields one row per member and sale of that member in
\* the range (or the null sale), or the null member.
GroupsSqlRow(g, startDate, end) ==
    LET M == {ug.user_id : ug \in {x \in user_groups : x.group_id = g.id}}
        S == {i \in DOMAIN sales : sales[i].user_id \in M /\ InRange(i, startDate, end)}
    IN  [id                     |-> g.id,
         name                   |-> g.name,
         member_count           |-> SqlInt(Cardinality(M)),
         sale_count             |-> SqlInt(Cardinality(S)),
         total_revenue          |-> SUM(S, 1),
         avg_revenue_per_sale   |-> AVG(S, 1),
         avg_revenue_per_member |->
             IF S = {} THEN SqlNull   \* NULL / n is NULL, also for n = 0
             ELSE SqlNum(DivRound(SumAmount(S), Cardinality(M), DivScale), DivScale)]

\* The possible outcomes of the groups query.
GroupsQuery(q, today) ==
    LET startDate == StartParam(q)
        end       == EndParam(q, today)
    IN  IF ~IsDate(startDate) \/ ~IsDate(end) THEN {QueryError}
        ELSE {QueryRows(f) :
                 f \in Ordered({GroupsSqlRow(g, startDate.v, end.v) : g \in groups})}

\* The row mapping with the revenue per sale in place of the revenue per
\* member.
GroupsRow_perSale(row) ==
    [groupId             |-> row.id,
     name                |-> row.name,
     memberCount         |-> ToJSON(parseIntCol(row.member_count)),
     saleCount           |-> ToJSON(parseIntCol(row.sale_count)),
     totalRevenue        |-> ToJSON(OrZero(parseFloat(row.total_revenue))),
     avgRevenuePerSale   |-> ToJSON(OrZero(parseFloat(row.avg_revenue_per_sale))),
     avgRevenuePerMember |-> ToJSON(OrZero(parseFloat(row.avg_revenue_per_sale)))]

\* result.rows.map(row => ({ groupId, name, memberCount, ... }))
GroupsRow(row) ==
    [groupId             |-> row.id,
     name                |-> row.name,
     memberCount         |-> ToJSON(parseIntCol(row.member_count)),
     saleCount           |-> ToJSON(parseIntCol(row.sale_count)),
     totalRevenue        |-> ToJSON(OrZero(parseFloat(row.total_revenue))),
     avgRevenuePerSale   |-> ToJSON(OrZero(parseFloat(row.avg_revenue_per_sale))),
     avgRevenuePerMember |-> ToJSON(OrZero(parseFloat(row.avg_revenue_per_member)))]

----------------------------------------------------------------------------
(* Responses *)

\* res.json({ data: ... })
DataResponse(rows) ==
    [status |-> 200, key |-> "data", error |-> "", data |-> rows]

\* res.status(500).json({ error: 'Internal server error' })
FailureResponse ==
    [status |-> 500, key |-> "error", error |-> "Internal server error", data |-> <<>>]

\* What the framework's own error handling writes when it is handed the
\* rejection of a handler: a 500 page that is not the handlers' JSON body.
FrameworkErrorPage ==
    [status |-> 500, key |-> "page", error |-> "", data |-> <<>>]

\* The body a handler's try block sends for the rows of its query.
HandlerData(ep, q, rows) ==
    CASE ep = "time-series" -> [k \in DOMAIN rows |-> TimeSeriesRow(rows[k], MetricParam(q))]
      [] ep = "users"       -> [k \in DOMAIN rows |-> UsersRow(rows[k])]
      [] ep = "groups"      -> [k \in DOMAIN rows |-> GroupsRow(rows[k])]
      [] ep = "trends"      -> [k \in DOMAIN rows |-> TrendsRow(rows[k])]

\* The outcomes the statement of a handler can have in the store.
HandlerQuery(ep, q, today) ==
    CASE ep = "time-series" -> {TimeSeriesQuery(q, today)}
      [] ep = "users"       -> UsersQuery(q, today)
      [] ep = "groups"      -> GroupsQuery(q, today)
      [] ep = "trends"      -> {TrendsQuery(q, today)}

----------------------------------------------------------------------------
(* Requests *)

Endpoints == {"time-series", "users", "groups", "trends"}

NoQuery ==
    [startDate |-> Absent, endDate |-> Absent, interval |-> "<absent>",
     userId |-> Absent, groupId |-> Absent, metric |-> "<absent>", limit |-> Absent]

IdleRequest ==
    [pc |-> "idle", endpoint |-> "none", q |-> NoQuery, today |-> 0,
     fault |-> "none", sent |-> <<>>, released |-> 0]

\* The current date, read when endDate is absent.
Todays == {100, 2000}

TodayFor(q) == IF q.endDate.k = "absent" THEN Todays ELSE {0}

\* The framework calls the handler, which calls pool.connect() and awaits.
Arrive(r, ep, q) ==
    /\ req[r].pc = "idle"
    /\ req' = [req EXCEPT ![r].pc = "connect", ![r].endpoint = ep, ![r].q = q]
    /\ UNCHANGED <<users, groups, user_groups, sales, checkedOut>>

\* pool.connect() resolves with a client.
ConnectResolves(r) ==
    /\ req[r].pc = "connect"
    /\ checkedOut < PoolMax
    /\ checkedOut' = checkedOut + 1
    /\ req' = [req EXCEPT ![r].pc = "try"]
    /\ UNCHANGED <<users, groups, user_groups, sales>>

\* What becomes of a rejection that leaves an async handler: nothing is
\* written (the rejection is unhandled), or the framework's error handling
\* answers.
RejectionOutcomes == {<<>>, <<FrameworkErrorPage>>}

\* pool.connect() rejects (no client within connectionTimeoutMillis, or the
\* store is unreachable).  The await is outside the try block: the handler's
\* promise rejects.
ConnectRejects(r) ==
    /\ req[r].pc = "connect"
    /\ \E out \in RejectionOutcomes :
          req' = [req EXCEPT ![r].pc = "rejected", ![r].fault = "connect",
                             ![r].sent = @ \o out]
    /\ UNCHANGED <<users, groups, user_groups, sales, checkedOut>>

\* A finally block that leaves the client checked out.
Release_kept(r, rq) == [rq EXCEPT !.pc = "done"]

\* finally { client.release() }
Release(r, rq) == [rq EXCEPT !.released = @ + 1, !.pc = "done"]

\* The try block with a query that resolves: the rows are mapped and sent,
\* then the client is released.
QueryResolves(r) ==
    /\ req[r].pc = "try"
    /\ \E today \in TodayFor(req[r].q) :
       \E out \in HandlerQuery(req[r].endpoint, req[r].q, today) :
          /\ out.ok
          /\ req' = [req EXCEPT ![r] = Release(r,
                        [@ EXCEPT !.today = today,
                                  !.sent = @ \o <<DataResponse(
                                      HandlerData(req[r].endpoint, req[r].q, out.rows))>>])]
    /\ checkedOut' = checkedOut - 1
    /\ UNCHANGED <<users, groups, user_groups, sales>>

\* The try block with a statement the store rejects: the catch block sends
\* the failure, then the client is released.
QueryRaises(r) ==
    /\ req[r].pc = "try"
    /\ \E today \in TodayFor(req[r].q) :
          /\ \E out \in HandlerQuery(req[r].endpoint, req[r].q, today) : ~out.ok
          /\ req' = [req EXCEPT ![r] = Release(r,
                        [@ EXCEPT !.today = today, !.fault = "statement",
                                  !.sent = @ \o <<FailureResponse>>])]
    /\ checkedOut' = checkedOut - 1
    /\ UNCHANGED <<users, groups, user_groups, sales>>

\* The try block with a query the store fails for its own reasons (the
\* connection drops): catch and finally as above.
StoreFails(r) ==
    /\ req[r].pc = "try"
    /\ req' = [req EXCEPT ![r] = Release(r,
                  [@ EXCEPT !.fault = "store", !.sent = @ \o <<FailureResponse>>])]
    /\ checkedOut' = checkedOut - 1
    /\ UNCHANGED <<users, groups, user_groups, sales>>

\* One step of request r, which may be any of requests.
Step(r, requests) ==
    \/ \E x \in requests : Arrive(r, x.endpoint, x.q)
    \/ ConnectResolves(r)
    \/ ConnectRejects(r)
    \/ QueryResolves(r)
    \/ QueryRaises(r)
    \/ StoreFails(r)

----------------------------------------------------------------------------
(* The store as seeded.  No handler reads a sale's id other than to count *)
(* rows, so sales tables are taken up to a renaming of the ids: the rows   *)
(* are listed in the order of SaleKey.                                     *)

UserRec(i)  == [id |-> i, name |-> <<"User", i>>, role |-> "Agent"]
GroupRec(i) == [id |-> i, name |-> <<"Group", i>>]

SaleRecs(U, amounts, dates) ==
    [user_id : 1..U, amount : amounts, date : dates]

SaleKey(s) == (s.date * 8 + s.user_id) * 100000 + s.amount

SalesTables(recs, n) ==
    UNION {{f \in [1..k -> recs] :
               \A i, j \in 1..k : i < j => SaleKey(f[i]) <= SaleKey(f[j])} : k \in 0..n}

Memberships(U, G) == SUBSET [user_id : 1..U, group_id : 1..G]

InitStore(U, G, tables) ==
    /\ users = {UserRec(i) : i \in 1..U}
    /\ groups = {GroupRec(i) : i \in 1..G}
    /\ user_groups \in Memberships(U, G)
    /\ sales \in tables
    /\ checkedOut = 0
    /\ req = [r \in 1..MaxReq |-> IdleRequest]

----------------------------------------------------------------------------
(* All four reports, requests in flight together, over a small store *)

Requests ==
    {[endpoint |-> "time-series", q |-> NoQuery],
     [endpoint |-> "time-series", q |-> [NoQuery EXCEPT !.userId = PText]],
     [endpoint |-> "users",       q |-> NoQuery],
     [endpoint |-> "users",       q |-> [NoQuery EXCEPT !.limit = PInt(-1)]],
     [endpoint |-> "groups",      q |-> NoQuery],
     [endpoint |-> "groups",      q |-> [NoQuery EXCEPT !.startDate = PText]],
     [endpoint |-> "trends",      q |-> NoQuery],
     [endpoint |-> "trends",      q |-> [NoQuery EXCEPT !.endDate = PText]]}

Init == InitStore(MaxUsers, 1, SalesTables(SaleRecs(1, {5}, {14, 45}), 1))

Next == \E r \in 1..MaxReq : Step(r, Requests)

Spec == Init /\ [][Next]_vars

----------------------------------------------------------------------------
(* The trend report *)

Intervals == validIntervals \cup {"hour", "<absent>"}

TrendsRequests ==
    {[endpoint |-> "trends",
      q |-> [NoQuery EXCEPT !.startDate = sd, !.endDate = ed, !.interval = iv]] :
        sd \in {Absent, PDate(14), PText},
        ed \in {Absent, PDate(45), PDate(370)},
        iv \in Intervals}

InitTrends ==
    InitStore(1, 0, SalesTables(SaleRecs(1, {0, 16562, 60813}, {0, 14, 45, 100}),
                                MaxTrendSales))

NextTrends == Step(1, TrendsRequests)

SpecTrends == InitTrends /\ [][NextTrends]_vars

----------------------------------------------------------------------------
(* The time-series report *)

Metrics == {"<absent>", "all", "totalRevenue", "avgRevenue", "averageRevenue",
            "saleCount", "activeUsers"}

TimeSeriesRequests ==
    {[endpoint |-> "time-series",
      q |-> [NoQuery EXCEPT !.startDate = rg[1], !.endDate = rg[2], !.interval = iv]] :
        rg \in {<<Absent, Absent>>, <<PDate(50), Absent>>,
                <<PDate(50), PDate(100)>>, <<PText, Absent>>},
        iv \in Intervals}
    \cup
    {[endpoint |-> "time-series",
      q |-> [NoQuery EXCEPT !.userId = uid, !.groupId = gid]] :
        uid \in {Absent, PInt(1), PPrefix(2), PText},
        gid \in {Absent, PInt(1), PText}}
    \cup
    {[endpoint |-> "time-series", q |-> [NoQuery EXCEPT !.metric = mt]] :
        mt \in Metrics}

InitTimeSeries ==
    InitStore(MaxUsers, 1,
              SalesTables(SaleRecs(MaxUsers, {1, 2}, {50, 370}), MaxSales))

NextTimeSeries == Step(1, TimeSeriesRequests)

SpecTimeSeries == InitTimeSeries /\ [][NextTimeSeries]_vars

----------------------------------------------------------------------------
(* The user and group reports *)

EntityRequests ==
    {[endpoint |-> "users",
      q |-> [NoQuery EXCEPT !.startDate = sd, !.endDate = ed, !.limit = lim]] :
        sd \in {Absent, PDate(45)},
        ed \in {Absent, PDate(14)},
        lim \in {Absent, PInt(0), PInt(1), PInt(-1), PText}}
    \cup
    {[endpoint |-> "groups",
      q |-> [NoQuery EXCEPT !.startDate = sd, !.endDate = ed]] :
        sd \in {Absent, PDate(45)},
        ed \in {Absent, PDate(14)}}
    \cup
    {[endpoint |-> ep, q |-> [NoQuery EXCEPT !.startDate = PText]] :
        ep \in {"users", "groups"}}

\* Stores of at most MaxRows memberships and sales together.
InitEntities ==
    /\ InitStore(MaxUsers, MaxGroups,
                 SalesTables(SaleRecs(MaxUsers, {0, 1}, {14, 45}), MaxRows))
    /\ Cardinality(user_groups) + Len(sales) <= MaxRows

NextEntities == Step(1, EntityRequests)

SpecEntities == InitEntities /\ [][NextEntities]_vars

----------------------------------------------------------------------------
(* The two reports that take an interval *)

IntervalRequests ==
    {[endpoint |-> ep,
      q |-> [NoQuery EXCEPT !.startDate = rg[1], !.endDate = rg[2], !.interval = iv]] :
        ep \in {"time-series", "trends"},
        rg \in {<<Absent, Absent>>, <<PDate(14), PDate(100)>>, <<PText, Absent>>},
        iv \in Intervals}

InitIntervals ==
    InitStore(1, 0, SalesTables(SaleRecs(1, {0, 3}, {14, 45, 100, 370}), MaxSales))

NextIntervals == Step(1, IntervalRequests)

SpecIntervals == InitIntervals /\ [][NextIntervals]_vars

----------------------------------------------------------------------------
(* The pool under more requests than it has clients.  Request 1 is any of   *)
(* PoolRequests and takes every path.  Requests 2.. are a load of identical *)
(* trend requests; two of them at the same position are the same record,    *)
(* so the load is taken up to a renaming of its requests: of those at one   *)
(* position the lowest-numbered moves first.  The load takes the path on    *)
(* which the client is acquired and the query resolves.                     *)

PoolRequests ==
    {[endpoint |-> "trends", q |-> [NoQuery EXCEPT !.endDate = PDate(100)]],
     [endpoint |-> "trends", q |-> [NoQuery EXCEPT !.endDate = PText]],
     [endpoint |-> "users",  q |-> [NoQuery EXCEPT !.endDate = PDate(100)]]}

Load == 2..(PoolMax + 3)

LoadRequest == [endpoint |-> "trends", q |-> [NoQuery EXCEPT !.endDate = PDate(100)]]

\* No lower-numbered request of the load is at the position of request r.
LoadTurn(r) == \A k \in Load : k < r => req[k].pc # req[r].pc

LoadStep(r) ==
    /\ LoadTurn(r)
    /\ \/ Arrive(r, LoadRequest.endpoint, LoadRequest.q)
       \/ ConnectResolves(r)
       \/ QueryResolves(r)

InitPool ==
    /\ users = {UserRec(1)}
    /\ groups = {}
    /\ user_groups = {}
    /\ sales \in SalesTables(SaleRecs(1, {5}, {14, 45}), 1)
    /\ checkedOut = 0
    /\ req = [r \in {1} \cup Load |-> IdleRequest]

NextPool ==
    \/ Step(1, PoolRequests)
    \/ \E r \in Load : LoadStep(r)

SpecPool == InitPool /\ [][NextPool]_vars

----------------------------------------------------------------------------
(* Properties *)

Reqs == DOMAIN req

\* Request r was answered with rows under data.
Answered(r) ==
    /\ req[r].pc = "done"
    /\ Len(req[r].sent) = 1
    /\ req[r].sent[1].key = "data"

Data(r) == req[r].sent[1].data

\* The date parameters of request r are dates.
DatesGiven(r) ==
    /\ IsDate(StartParam(req[r].q))
    /\ req[r].q.endDate.k \in {"absent", "date"}

\* C1: a trend request that the store itself did not fail is answered with
\* rows; its first row has growthPercentage null, and so has every row that
\* follows a row of total revenue 0.
C1_ZeroPriorRevenueIsNull ==
    \A r \in Reqs :
        (req[r].endpoint = "trends" /\ req[r].pc = "done"
            /\ DatesGiven(r) /\ req[r].fault # "store")
        => /\ Answered(r)
           /\ \A i \in DOMAIN Data(r) :
                 (i = 1 \/ Data(r)[i - 1].totalRevenue.m = 0)
                 => Data(r)[i].growthPercentage = JsNull

\* The growth g (in hundredths of a percent) of a row of total revenue cur
\* that follows one of total revenue prev is (cur - prev) / prev * 100
\* rounded to two decimal places.
IsRoundedGrowth(g, cur, prev) ==
    /\ g.t = "num"
    /\ g.s = 2
    /\ 2 * Abs(g.m * prev - (cur - prev) * 10000) <= prev

StartOf(r) == StartParam(req[r].q).v
EndOf(r)   == EndParam(req[r].q, req[r].today).v

\* Request r is an answered time-series request over a valid date range.
TimeSeriesOver(r) ==
    /\ req[r].endpoint = "time-series" /\ Answered(r)
    /\ StartOf(r) <= EndOf(r)

\* C2 (as amended): the period of every time-series row lies between the
\* truncation of startDate and endDate, and within [startDate, endDate]
\* when the granularity is day.
C2_PeriodWithinTruncatedRange ==
    \A r \in Reqs :
        TimeSeriesOver(r)
        => \A i \in DOMAIN Data(r) :
              LET iv == timeInterval(req[r].q.interval)
                  period == Data(r)[i].period.m
              IN  /\ DATE_TRUNC(iv, StartOf(r)) <= period
                  /\ period <= EndOf(r)
                  /\ iv = "day" => StartOf(r) <= period

\* A time-series answer over a valid range with a row for a period that
\* starts before startDate.
C2_Witness ==
    \E r \in Reqs :
        /\ TimeSeriesOver(r)
        /\ \E i \in DOMAIN Data(r) : Data(r)[i].period.m < StartOf(r)

\* C2 as stated: the period of every time-series row lies within
\* [startDate, endDate].
C2_Original ==
    \A r \in Reqs :
        TimeSeriesOver(r)
        => \A i \in DOMAIN Data(r) :
              /\ StartOf(r) <= Data(r)[i].period.m
              /\ Data(r)[i].period.m <= EndOf(r)

\* The sales of user uid dated within the range of request r.
SalesOf(uid, r) ==
    {i \in DOMAIN sales :
        /\ sales[i].user_id = uid
        /\ sales[i].date >= StartOf(r) /\ sales[i].date <= EndOf(r)}

\* The limit request r asks for: 10 when absent.
LimitOf(r) == IF req[r].q.limit.k = "absent" THEN 10 ELSE req[r].q.limit.v

SmallerOf(a, b) == IF a <= b THEN a ELSE b

\* Request r is a user request with date parameters and a limit that is
\* absent or a non-negative integer.
UsersAsked(r) ==
    /\ req[r].endpoint = "users"
    /\ DatesGiven(r)
    /\ \/ req[r].q.limit.k = "absent"
       \/ req[r].q.limit.k = "int" /\ req[r].q.limit.v >= 0

RECURSIVE TenTo(_)
TenTo(k) == IF k = 0 THEN 1 ELSE 10 * TenTo(k - 1)

\* The number x is total / count, to the decimal places x carries.
IsQuotient(x, total, count) ==
    /\ x.t = "num"
    /\ 2 * Abs(x.m * count - total * TenTo(x.s)) <= count

\* Every group has a row in the answer to request r.
EveryGroupEmitted(r) ==
    /\ Len(Data(r)) = Cardinality(groups)
    /\ \A g \in groups : \E i \in DOMAIN Data(r) : Data(r)[i].groupId = g.id

C6_OneUniformResponse ==
    \A r \in Reqs :
        req[r].pc \in {"done", "rejected"}
        => /\ Len(req[r].sent) = 1
           /\ IF req[r].fault = "none"
              THEN req[r].sent[1].status = 200 /\ req[r].sent[1].key = "data"
              ELSE req[r].sent[1] = FailureResponse

\* C7: in the user report the saleCount of a row is the number of the
\* user's sales in the range and its totalRevenue is their sum, whatever
\* the number of groups of the user.
C7_SalesCountedOnce ==
    \A r \in Reqs :
        (req[r].endpoint = "users" /\ Answered(r))
        => \A i \in DOMAIN Data(r) :
              LET S == SalesOf(Data(r)[i].userId, r)
              IN  /\ Data(r)[i].saleCount = JsNum(Cardinality(S), 0)
                  /\ Data(r)[i].totalRevenue = JsNum(SumAmount(S), 0)

\* The names of the groups user uid belongs to.
GroupNamesOf(uid) ==
    {g.name : g \in {x \in groups :
                        [user_id |-> uid, group_id |-> x.id] \in user_groups}}

\* C8: in the user report the groups of a row are the names of the user's
\* groups, each once, whatever the sales of the user in the range.
C8_GroupsListedOnce ==
    \A r \in Reqs :
        (req[r].endpoint = "users" /\ Answered(r))
        => \A i \in DOMAIN Data(r) :
              LET gs == Data(r)[i].groups
              IN  /\ {gs[k].name : k \in DOMAIN gs} = GroupNamesOf(Data(r)[i].userId)
                  /\ \A k \in DOMAIN gs : ~gs[k].null
                  /\ \A k, l \in DOMAIN gs : k # l => gs[k] # gs[l]

\* C10: in the user and group reports the rows come by total revenue
\* descending, and a row without sales (a null total revenue in the store)
\* comes after every row with sales.
C10_RankedNullsLast ==
    \A r \in Reqs :
        (req[r].endpoint \in {"users", "groups"} /\ Answered(r))
        => \A i, j \in DOMAIN Data(r) :
              i < j => /\ Data(r)[i].totalRevenue.t = "num"
                       /\ Data(r)[j].totalRevenue.t = "num"
                       /\ Data(r)[i].totalRevenue.m >= Data(r)[j].totalRevenue.m
                       /\ Data(r)[i].saleCount.m = 0 => Data(r)[j].saleCount.m = 0

\* A report in which a row with sales of total revenue 0 is followed by a
\* row without sales.
C10_Witness ==
    \E r \in Reqs :
        /\ req[r].endpoint \in {"users", "groups"}
        /\ Answered(r)
        /\ \E i, j \in DOMAIN Data(r) :
              /\ i < j
              /\ Data(r)[i].saleCount.m > 0
              /\ Data(r)[i].totalRevenue.m = 0
              /\ Data(r)[j].saleCount.m = 0

\* A parameter that is supplied and is not a decimal integer.
NotNumeric(p) == p.k \in {"prefix", "text"}

\* Request r was refused as a bad request: one response, of status 400.
BadRequest(r) ==
    /\ Len(req[r].sent) = 1
    /\ req[r].sent[1].status = 400

\* C11: a time-series request whose userId or groupId is supplied and not
\* numeric ends refused as a bad request; it is never answered with rows
\* (as it would be were the parameter ignored or read as some other value).
C11_NonNumericIdIsBadRequest ==
    \A r \in Reqs :
        (/\ req[r].endpoint = "time-series"
         /\ req[r].pc = "done"
         /\ NotNumeric(req[r].q.userId) \/ NotNumeric(req[r].q.groupId))
        => /\ BadRequest(r)
           /\ ~Answered(r)

\* The granularity the claim gives an interval parameter.
Granularity(iv) ==
    IF iv \in {"day", "week", "month", "quarter", "year"} THEN iv ELSE "month"

\* The sales dated within the range of request r.
SalesWithin(r) ==
    {i \in DOMAIN sales : sales[i].date >= StartOf(r) /\ sales[i].date <= EndOf(r)}

\* The starts of the periods, of the granularity of request r, that hold a
\* sale within its range.
BucketsOf(r) ==
    {DATE_TRUNC(Granularity(req[r].q.interval), sales[i].date) : i \in SalesWithin(r)}

\* The periods of the rows request r was answered with.
PeriodsOf(r) ==
    IF req[r].endpoint = "trends"
    THEN {Data(r)[i].period : i \in DOMAIN Data(r)}
    ELSE {Data(r)[i].period.m : i \in DOMAIN Data(r)}

\* A period of request r of revenue 0 is followed by another period (the
\* division by zero of the trend report).
ZeroRevenuePeriod(r) ==
    \E b, c \in BucketsOf(r) :
        /\ b < c
        /\ SumAmount({i \in SalesWithin(r) :
              DATE_TRUNC(Granularity(req[r].q.interval), sales[i].date) = b}) = 0

\* C12: a time-series or trend request, whatever its interval parameter, is
\* answered with the periods of the parameter's granularity when that is one
\* of day, week, month, quarter, year, and of month otherwise; the store
\* rejects its statement only for its dates, its ids or a period of
\* revenue 0, never for its interval.
C12_IntervalCoercedToMonth ==
    \A r \in Reqs :
        req[r].endpoint \in {"time-series", "trends"}
        => /\ Granularity(req[r].q.interval) \in validIntervals
           /\ Answered(r) => PeriodsOf(r) = BucketsOf(r)
           /\ (req[r].pc = "done" /\ req[r].fault = "statement")
              => \/ ~DatesGiven(r)
                 \/ NotNumeric(req[r].q.userId) \/ NotNumeric(req[r].q.groupId)
                 \/ req[r].endpoint = "trends" /\ ZeroRevenuePeriod(r)

\* A request with an interval outside the five, answered with a row for a
\* month on whose first day no sale falls.
C12_Witness ==
    \E r \in Reqs :
        /\ req[r].endpoint \in {"time-series", "trends"}
        /\ req[r].q.interval = "hour"
        /\ Answered(r)
        /\ \E p \in PeriodsOf(r) :
              /\ \A i \in DOMAIN sales : sales[i].date # p
              /\ \E i \in SalesWithin(r) : DATE_TRUNC("month", sales[i].date) = p

\* The fields of a time-series row other than period.
MetricFields == {"totalRevenue", "averageRevenue", "saleCount", "activeUsers"}

\* C13: every row of a time-series answer carries period and the four
\* metric fields when metric is all or absent, and period plus the one
\* field when metric names one of the fields.
C13_MetricProjection ==
    \A r \in Reqs :
        (req[r].endpoint = "time-series" /\ Answered(r))
        => \A i \in DOMAIN Data(r) :
              /\ req[r].q.metric \in {"all", "<absent>"}
                 => DOMAIN Data(r)[i] = {"period"} \cup MetricFields
              /\ req[r].q.metric \in MetricFields
                 => DOMAIN Data(r)[i] = {"period", req[r].q.metric}

\* The requests that hold a client: acquired, not yet released.
Holding == {r \in Reqs : req[r].pc = "try"}

\* No request is in flight.
Quiet == \A r \in Reqs : req[r].pc \in {"idle", "done", "rejected"}

\* C14: the clients checked out are those of the requests between their
\* acquire and their release; a request whose handler has ended after
\* acquiring a client has released it exactly once, whether its query
\* resolved or failed, and no other request has released any; the number of
\* clients checked out never exceeds 20 and is 0 when no request is in
\* flight.
C14_ClientsReleasedOnce ==
    /\ checkedOut = Cardinality(Holding)
    /\ checkedOut <= 20
    /\ \A r \in Reqs :
          req[r].released = (IF req[r].pc = "done" THEN 1 ELSE 0)
    /\ Quiet => checkedOut = 0

\* The pool has all its 20 clients checked out while a request waits for
\* one, after a request whose query resolved and a request whose query
\* failed have each released theirs.
C14_Witness ==
    /\ checkedOut = PoolMax
    /\ \E r \in Reqs : req[r].pc = "connect"
    /\ \E r \in Reqs :
          req[r].pc = "done" /\ req[r].fault = "none" /\ req[r].released = 1
    /\ \E r \in Reqs :
          req[r].pc = "done" /\ req[r].fault # "none" /\ req[r].released = 1

=============================================================================
